---- MODULE Spec2Model ----
(***************************************************************************)
(* The Reddit proxy of wtc-dashboard: one serverless handler that          *)
(* sanitises the query, walks a chain of upstream strategies and answers   *)
(* the first usable result.  The repository holds two handlers:            *)
(*   src/api/reddit.js      three JSON attempts, 404 short-circuit, no     *)
(*                          sample data;                                   *)
(*   src/unnamed/part_000   tryJsonApi (two JSON attempts), tryRssFeed,    *)
(*                          getSamplePosts on total failure.               *)
(* Both are modelled; the variable impl says which file serves the         *)
(* request.  JavaScript strings are sequences of one-character strings so  *)
(* that replace/slice/parseInt are computed, not assumed.                  *)
(***************************************************************************)
EXTENDS Integers, Sequences, FiniteSets, TLC

(***************************************************************************)
(* Bounds of the model.                                                    *)
(***************************************************************************)
\* longest data.children list an upstream JSON body carries
MaxChildren == 2
\* most <entry> blocks an upstream feed body carries
MaxEntries == 2
\* the clock advances by at most this many seconds between two Date.now()
MaxDrift == 1

(***************************************************************************)
(* JavaScript strings and the values of req.query.                         *)
(***************************************************************************)
\* a query parameter that is absent (JavaScript undefined)
Undefined == << "undefined" >>

Lower == {"a","b","c","d","e","f","g","h","i","j","k","l","m",
          "n","o","p","q","r","s","t","u","v","w","x","y","z"}
Upper == {"A","B","C","D","E","F","G","H","I","J","K","L","M",
          "N","O","P","Q","R","S","T","U","V","W","X","Y","Z"}
Digits == {"0","1","2","3","4","5","6","7","8","9"}

\* the complement of the character class [^a-zA-Z0-9_]
IsWordChar(c) == c \in Lower \cup Upper \cup Digits \cup {"_"}

\* String.prototype.slice(0, n)
SliceTo(s, n) == IF Len(s) <= n THEN s ELSE SubSeq(s, 1, n)

\* subreddit.replace(/[^a-zA-Z0-9_]/g, '').slice(0, 50)
SubredditMaxLen == 50
SanitizeSubreddit(subreddit) ==
    SliceTo(SelectSeq(subreddit, IsWordChar), SubredditMaxLen)

DigitVal(c) ==
    CASE c = "0" -> 0 [] c = "1" -> 1 [] c = "2" -> 2 [] c = "3" -> 3
      [] c = "4" -> 4 [] c = "5" -> 5 [] c = "6" -> 6 [] c = "7" -> 7
      [] c = "8" -> 8 [] c = "9" -> 9

RECURSIVE DigitsPrefix(_, _)
\* the value of the longest run of decimal digits at the head of s, after
\* acc digits' worth have been read
DigitsPrefix(s, acc) ==
    IF s = << >> \/ Head(s) \notin Digits THEN acc
    ELSE DigitsPrefix(Tail(s), 10 * acc + DigitVal(Head(s)))

RECURSIVE TrimLeft(_)
TrimLeft(s) == IF s # << >> /\ Head(s) = " " THEN TrimLeft(Tail(s)) ELSE s

\* the not-a-number result of parseInt
NaN == [nan |-> TRUE, n |-> 0]
Num(v) == [nan |-> FALSE, n |-> v]

\* parseInt(string): leading blanks, an optional sign, then decimal digits;
\* NaN when no digit follows
ParseInt(str) ==
    LET t == TrimLeft(str)
        neg == t # << >> /\ Head(t) = "-"
        u == IF t # << >> /\ Head(t) \in {"-", "+"} THEN Tail(t) ELSE t
    IN  IF u = << >> \/ Head(u) \notin Digits THEN NaN
        ELSE IF neg THEN Num(0 - DigitsPrefix(u, 0)) ELSE Num(DigitsPrefix(u, 0))

Min(a, b) == IF a <= b THEN a ELSE b
Max(a, b) == IF a >= b THEN a ELSE b

DefaultLimit == 10
MinLimit == 1
MaxLimit == 25
\* Math.min(Math.max(parseInt(limit) || 10, 1), 25), limit = '10' by default
CleanLimit(limit) ==
    LET raw == IF limit = Undefined THEN << "1", "0" >> ELSE limit
        n == ParseInt(raw)
        \* NaN and 0 are the falsy numbers of parseInt(limit) || 10
        orTen == IF n.nan \/ n.n = 0 THEN DefaultLimit ELSE n.n
    IN  Min(Max(orTen, MinLimit), MaxLimit)

S_hot == << "h", "o", "t" >>
S_new == << "n", "e", "w" >>
S_top == << "t", "o", "p" >>
S_rising == << "r", "i", "s", "i", "n", "g" >>
SortAllowList == { S_hot, S_new, S_top, S_rising }
\* ['hot','new','top','rising'].includes(sort) ? sort : 'hot', sort = 'hot'
\* by default
CleanSort(sort) ==
    LET raw == IF sort = Undefined THEN S_hot ELSE sort
    IN  IF raw \in SortAllowList THEN raw ELSE S_hot

\* part_000 reads no sort: every URL it builds says hot
FixedSort == S_hot

(***************************************************************************)
(* Upstream bodies.                                                        *)
(***************************************************************************)
\* the children an upstream listing may carry: a post, a stickied post, a
\* non-post entry (an ad), and a t3 entry that has no data object
ChildKinds == {"live", "sticky", "ad", "nodata"}

\* the child record at position i of data.children
Child(k, i) ==
    [kind |-> IF k = "ad" THEN "t1" ELSE "t3",
     hasData |-> k # "nodata",
     id |-> ToString(i),
     author |-> "redditor",
     stickied |-> k = "sticky"]

ChildrenOf(kinds) == [i \in 1..Len(kinds) |-> Child(kinds[i], i)]

RECURSIVE SeqsUpTo(_, _)
\* the sequences over S of length at most n
SeqsUpTo(S, n) ==
    IF n = 0 THEN {<< >>}
    ELSE LET shorter == SeqsUpTo(S, n - 1)
         IN  shorter \cup {Append(q, x) : q \in {r \in shorter : Len(r) = n - 1}, x \in S}

\* what response.json() yields: a rejection (unparsable), a value without
\* data.children, a data.children that is no array, or a listing
JsonBodies ==
    {[shape |-> sh, children |-> << >>] : sh \in {"unparsable", "nochildren", "notarray"}}
    \cup {[shape |-> "list", children |-> ChildrenOf(ks)] : ks \in SeqsUpTo(ChildKinds, MaxChildren)}

\* what response.text() yields for the feed: a rejection, or a text that
\* may contain '<html' and holds some '<entry>' blocks, each with or
\* without a /comments/<id>/ link
EntryKinds == {"linked", "nolink"}
FeedBodies ==
    {[shape |-> "unreadable", html |-> FALSE, entries |-> << >>]}
    \cup {[shape |-> "text", html |-> h, entries |-> es] :
             h \in BOOLEAN, es \in SeqsUpTo(EntryKinds, MaxEntries)}

\* the tokens Math.random().toString(36).slice(2) may yield
RandomIds == {"r1", "r2"}

(***************************************************************************)
(* Post normalisers.                                                       *)
(***************************************************************************)
\* a thrown exception, as the value of a computation
Threw(msg) == [threw |-> TRUE, message |-> msg, posts |-> << >>]
Returned(posts) == [threw |-> FALSE, message |-> "", posts |-> posts]

\* formatPost(post) of part_000
formatPost(post) ==
    [id |-> post.id, author |-> post.author, isPinned |-> post.stickied]

\* reddit.js lines 96-118: children.filter(kind === 't3').map(child => ...)
\* reading child.data.id throws when a t3 child has no data
ExtractPostsV1(body) ==
    IF body.shape = "notarray" THEN Threw("filter is not a function")
    ELSE LET t3 == SelectSeq(body.children, LAMBDA c : c.kind = "t3")
         IN  IF \E i \in 1..Len(t3) : ~t3[i].hasData
             THEN Threw("Cannot read properties of undefined")
             ELSE Returned([i \in 1..Len(t3) |->
                     [id |-> t3[i].id, author |-> t3[i].author,
                      isPinned |-> t3[i].stickied]])

\* the listing filter without the cut to the limit
ExtractPostsUncut(body, limit) ==
    IF body.shape = "notarray" THEN Threw("filter is not a function")
    ELSE IF \E i \in 1..Len(body.children) :
                body.children[i].kind = "t3" /\ ~body.children[i].hasData
         THEN Threw("Cannot read properties of undefined")
         ELSE LET kept == SelectSeq(body.children,
                              LAMBDA c : c.kind = "t3" /\ ~c.stickied)
              IN  Returned([i \in 1..Len(kept) |-> formatPost(kept[i])])

\* part_000 lines 74-77: filter(c => c.kind === 't3' && !c.data.stickied)
\* .slice(0, limit).map(c => formatPost(c.data)); the filter reads c.data of
\* every t3 child, so one without data throws
ExtractPostsV2(body, limit) ==
    IF body.shape = "notarray" THEN Threw("filter is not a function")
    ELSE IF \E i \in 1..Len(body.children) :
                body.children[i].kind = "t3" /\ ~body.children[i].hasData
         THEN Threw("Cannot read properties of undefined")
         ELSE LET kept == SelectSeq(body.children,
                              LAMBDA c : c.kind = "t3" /\ ~c.stickied)
                  cut == SliceTo(kept, limit)
              IN  Returned([i \in 1..Len(cut) |-> formatPost(cut[i])])

\* parseAtomFeed(xml, subreddit): one post per text after an '<entry>'
\* marker; rnd[i] is the token Math.random gives entry i when its link has
\* no /comments/<id>/ segment
parseAtomFeed(xml, subreddit, rnd) ==
    [i \in 1..Len(xml.entries) |->
        [id |-> IF xml.entries[i] = "linked" THEN "e" \o ToString(i) ELSE rnd[i],
         author |-> "unknown",
         subreddit |-> subreddit,
         isPinned |-> FALSE]]

(***************************************************************************)
(* Fallback data provider.                                                 *)
(***************************************************************************)
S_coffee == << "c", "o", "f", "f", "e", "e" >>
S_Philippines == << "P", "h", "i", "l", "i", "p", "p", "i", "n", "e", "s" >>
S_entrepreneur ==
    << "e", "n", "t", "r", "e", "p", "r", "e", "n", "e", "u", "r" >>
S_constructor == << "c", "o", "n", "s", "t", "r", "u", "c", "t", "o", "r" >>
S_proto == << "_", "_", "p", "r", "o", "t", "o", "_", "_" >>
S_toString == << "t", "o", "S", "t", "r", "i", "n", "g" >>
S_valueOf == << "v", "a", "l", "u", "e", "O", "f" >>

\* the keys of the samples object literal
SampleKeys == { S_coffee, S_Philippines, S_entrepreneur }

\* samples.<key>: id and upvotes of the three curated posts
SampleTable(key) ==
    CASE key = S_coffee ->
           << [id |-> "s1", upvotes |-> 2847], [id |-> "s2", upvotes |-> 1923],
              [id |-> "s3", upvotes |-> 1567] >>
      [] key = S_Philippines ->
           << [id |-> "s1", upvotes |-> 1834], [id |-> "s2", upvotes |-> 945],
              [id |-> "s3", upvotes |-> 723] >>
      [] key = S_entrepreneur ->
           << [id |-> "s1", upvotes |-> 3421], [id |-> "s2", upvotes |-> 2156],
              [id |-> "s3", upvotes |-> 1876] >>

\* property names every object literal inherits from Object.prototype and
\* that [A-Za-z0-9_] lets through: samples[name] is then a function (or,
\* for __proto__, the prototype object), which is truthy and has no map
InheritedKeys == { S_constructor, S_proto, S_toString, S_valueOf }

SecondsPerHour == 3600

\* getSamplePosts(subreddit); clock[i] is Date.now() / 1000 as read for
\* element i of the map
getSamplePosts(subreddit, clock) ==
    IF subreddit \in InheritedKeys
    THEN Threw("basePosts.map is not a function")
    ELSE LET basePosts == IF subreddit \in SampleKeys
                          THEN SampleTable(subreddit)
                          ELSE SampleTable(S_coffee)
         IN  Returned([j \in 1..Len(basePosts) |->
                 [id |-> basePosts[j].id,
                  upvotes |-> basePosts[j].upvotes,
                  author |-> "sample_user",
                  subreddit |-> subreddit,
                  \* i of the source is j - 1
                  created |-> clock[j] - j * SecondsPerHour,
                  isPinned |-> FALSE]])

\* the readings a run of three Date.now() calls can give: never backwards,
\* at most MaxDrift seconds apart in all
BaseTime == 1000 * SecondsPerHour
Clocks ==
    { c \in [1..3 -> BaseTime..(BaseTime + MaxDrift)] :
        \A j \in 1..2 : c[j] <= c[j + 1] }

(***************************************************************************)
(* Requests and upstream answers.                                          *)
(***************************************************************************)
\* the two handler files of the repository
Impls == {"reddit_js", "part_000"}

Methods == {"GET", "OPTIONS", "POST"}

S_tea == << "t", "e", "a" >>
\* a name one character longer than slice(0, 50) keeps
S_long == [i \in 1..(SubredditMaxLen + 1) |-> "x"]

\* values of req.query.subreddit: absent, empty, nothing but stripped
\* characters, a table key with a stripped character, another table key, an
\* unknown name, an inherited property name, an over-long name
SubredditInputs ==
    { Undefined, << >>, << "!", "?" >>, Append(S_coffee, "!"), S_Philippines,
      S_tea, S_constructor, S_long }

\* values of req.query.limit
LimitInputs == { Undefined, << "1" >> }

\* values of req.query.sort
SortInputs == { Undefined, S_new, << "b", "o", "g", "u", "s" >> }

Requests ==
    [method : Methods, subreddit : SubredditInputs, limit : LimitInputs,
     sort : SortInputs]

NoRequest ==
    [method |-> "", subreddit |-> Undefined, limit |-> Undefined,
     sort |-> Undefined]

\* status codes an upstream response may carry
Statuses == {200, 403, 404, 429, 500}
\* response.ok
IsOk(status) == status >= 200 /\ status <= 299

\* values of response.headers.get('content-type') || ''
ContentTypes == {"application/json", "text/html", ""}
\* ct.includes('json')
IncludesJson(ct) == ct = "application/json"

\* the strategies of a chain, in order
NumAttempts == 3

\* the URL of strategy i: reddit.js lines 30-44; part_000 lines 46-49 and 88
\* (limit 0: the URL carries no limit)
AttemptUrl(im, i, sub, sort, limit) ==
    IF im = "reddit_js"
    THEN [host |-> IF i = 1 THEN "old.reddit.com" ELSE "www.reddit.com",
          subreddit |-> sub, sort |-> sort, ext |-> "json", limit |-> limit,
          rawJson |-> i < 3]
    ELSE IF i < 3
         THEN [host |-> IF i = 1 THEN "old.reddit.com" ELSE "www.reddit.com",
               subreddit |-> sub, sort |-> FixedSort, ext |-> "json",
               limit |-> limit, rawJson |-> TRUE]
         ELSE [host |-> "www.reddit.com", subreddit |-> sub,
               sort |-> FixedSort, ext |-> "rss", limit |-> 0,
               rawJson |-> FALSE]

\* strategy i of part_000 is the feed (tryRssFeed)
IsFeed(im, i) == im = "part_000" /\ i = 3

(***************************************************************************)
(* Response bodies.                                                        *)
(***************************************************************************)
CorsHeaders ==
    ("Access-Control-Allow-Origin" :> "*")
    @@ ("Access-Control-Allow-Methods" :> "GET, OPTIONS")
    @@ ("Access-Control-Allow-Headers" :> "Content-Type")

\* res.setHeader(name, value) on the headers hs
SetHeader(hs, name, value) ==
    [h \in DOMAIN hs \cup {name} |-> IF h = name THEN value ELSE hs[h]]

\* the header table before any setHeader
NoHeaders == [h \in {} |-> ""]

\* the Cache-Control value of a success
CacheDirective == "s-maxage=300, stale-while-revalidate=600"

\* res.status(200).end()
EmptyBody == [empty |-> TRUE]
MethodNotAllowedBody == [error |-> "Method not allowed"]
MissingSubredditBody == [error |-> "Missing subreddit parameter"]
\* reddit.js lines 73-76
NotFoundBody(sub) == [error |-> "Subreddit not found", subreddit |-> sub]

\* reddit.js lines 123-130 (fetchedAt left out)
SuccessBodyV1(sub, sort, posts) ==
    [success |-> TRUE, subreddit |-> sub, sort |-> sort, count |-> Len(posts),
     posts |-> posts]

\* part_000 lines 79 and 115 (fetchedAt left out)
SuccessBodyV2(source, sub, posts) ==
    [success |-> TRUE, source |-> source, subreddit |-> sub, posts |-> posts,
     count |-> Len(posts)]

\* reddit.js lines 141-147
UnavailableBodyV1(sub, message) ==
    [success |-> FALSE, error |-> "Reddit API unavailable",
     message |-> message, subreddit |-> sub]

\* UnavailableBodyV2 without its fallback marker
UnavailableBodyUnmarked(sub, jsonErr, rssErr, posts) ==
    [success |-> FALSE, error |-> "Reddit unavailable", subreddit |-> sub,
     jsonError |-> jsonErr, rssError |-> rssErr, posts |-> posts]

\* part_000 lines 33-42
UnavailableBodyV2(sub, jsonErr, rssErr, posts) ==
    [success |-> FALSE, error |-> "Reddit unavailable", subreddit |-> sub,
     jsonError |-> jsonErr, rssError |-> rssErr, fallback |-> TRUE,
     posts |-> posts]

Response(status, body) == [status |-> status, body |-> body]

(***************************************************************************)
(* What the upstream did, as the environment sees it.                      *)
(***************************************************************************)
\* response headers of a JSON endpoint / of the feed
HeardJson(status, ct) ==
    IF ~IsOk(status) THEN "status " \o ToString(status)
    ELSE IF IncludesJson(ct) THEN "json headers" ELSE "non-json"
HeardFeed(status) ==
    IF ~IsOk(status) THEN "status " \o ToString(status) ELSE "feed headers"

\* a listing one of whose t3 children has no data object
HasBadChild(body) ==
    \E i \in 1..Len(body.children) :
        body.children[i].kind = "t3" /\ ~body.children[i].hasData

\* a body read from a JSON endpoint / from the feed
ReadJson(body) ==
    CASE body.shape = "unparsable" -> "unparsable"
      [] body.shape = "nochildren" -> "no children"
      [] body.shape = "notarray" -> "children not an array"
      [] body.shape = "list" -> IF HasBadChild(body) THEN "child without data"
                                ELSE "listing"
ReadFeed(xml) ==
    IF xml.shape = "unreadable" THEN "unreadable"
    ELSE IF xml.html THEN "html page"
    ELSE IF xml.entries = << >> THEN "no entry" ELSE "feed"

Event(i, what) == [attempt |-> i, what |-> what]

(***************************************************************************)
(* State.                                                                  *)
(***************************************************************************)
VARIABLES
    impl,            \* the handler file that serves the request
    req,             \* the inbound request
    pc,              \* "idle", "fetch" (await fetch), "body" (await
                     \* response.json() / .text()), "done", "crashed"
    cleanSubreddit,  \* the sanitised subreddit
    cleanLimit,      \* the sanitised limit
    cleanSort,       \* the sanitised sort (reddit.js only)
    attempt,         \* the strategy being tried, 0 before the chain
    calls,           \* the outbound calls issued so far, in order
    timers,          \* per strategy, its setTimeout: "unset", "armed",
                     \* "cleared" or "fired" (fired = its controller aborted)
    events,          \* what the upstream did to each call, in order
    lastBody,        \* the last listing or feed the upstream delivered
    lastError,       \* lastError of reddit.js
    jsonError,       \* jsonResult.error of part_000
    headers,         \* the headers set on res, name to value
    sent             \* the responses sent on res, in order

request == << impl, req, cleanSubreddit, cleanLimit, cleanSort >>
upstream == << events, lastBody >>
vars == << impl, req, pc, cleanSubreddit, cleanLimit, cleanSort, attempt,
           calls, timers, events, lastBody, lastError, jsonError, headers,
           sent >>

NoBodyRead == [shape |-> "none"]

Init ==
    /\ impl = "none"
    /\ req = NoRequest
    /\ pc = "idle"
    /\ cleanSubreddit = << >>
    /\ cleanLimit = 0
    /\ cleanSort = << >>
    /\ attempt = 0
    /\ calls = << >>
    /\ timers = [i \in 1..NumAttempts |-> "unset"]
    /\ events = << >>
    /\ lastBody = NoBodyRead
    /\ lastError = "null"
    /\ jsonError = ""
    /\ headers = NoHeaders
    /\ sent = << >>

(***************************************************************************)
(* Steps of the handler.  Each action runs the handler from one await to   *)
(* the next (or to its return).                                            *)
(***************************************************************************)
\* the handler returns res.status(status).json(body)
Respond(status, body) ==
    /\ sent' = Append(sent, Response(status, body))
    /\ pc' = "done"

\* StartAttempt with a retry: the fetch of strategy i is issued twice
StartAttemptTwice(i, sub, sort, limit, tm) ==
    /\ attempt' = i
    /\ calls' = Append(Append(calls, AttemptUrl(impl', i, sub, sort, limit)),
                       AttemptUrl(impl', i, sub, sort, limit))
    /\ timers' = [tm EXCEPT ![i] = "armed"]
    /\ pc' = "fetch"

\* new AbortController, setTimeout, fetch(url) of strategy i; tm is the
\* timer table as the step has left it so far
StartAttempt(i, sub, sort, limit, tm) ==
    /\ attempt' = i
    /\ calls' = Append(calls, AttemptUrl(impl', i, sub, sort, limit))
    /\ timers' = [tm EXCEPT ![i] = "armed"]
    /\ pc' = "fetch"

\* PassesMethodGate without the 405 line: only OPTIONS is turned away
PassesPreflightOnly(method) == method # "OPTIONS"

\* req.method passes lines 9-10 (reddit.js lines 10-16)
PassesMethodGate(method) == method = "GET"

\* !subreddit
IsFalsy(str) == str = Undefined \/ str = << >>

\* the handler up to its first await: CORS headers, method gate, input
\* normaliser, first strategy
Receive(im, r) ==
    /\ pc = "idle"
    /\ impl' = im
    /\ req' = r
    /\ headers' = CorsHeaders
    /\ UNCHANGED << upstream, lastError, jsonError >>
    /\ IF ~PassesMethodGate(r.method)
       THEN /\ IF r.method = "OPTIONS"
               THEN Respond(200, EmptyBody)
               ELSE Respond(405, MethodNotAllowedBody)
            /\ UNCHANGED << cleanSubreddit, cleanLimit, cleanSort, attempt,
                            calls, timers >>
       ELSE IF IsFalsy(r.subreddit)
       THEN /\ Respond(400, MissingSubredditBody)
            /\ UNCHANGED << cleanSubreddit, cleanLimit, cleanSort, attempt,
                            calls, timers >>
       ELSE /\ cleanSubreddit' = SanitizeSubreddit(r.subreddit)
            /\ cleanLimit' = CleanLimit(r.limit)
            /\ cleanSort' = IF im = "reddit_js" THEN CleanSort(r.sort)
                            ELSE FixedSort
            /\ StartAttempt(1, cleanSubreddit', cleanSort', cleanLimit', timers)
            /\ sent' = sent

\* All attempts failed (reddit.js lines 138-147); All strategies failed
\* (part_000 lines 32-42), where getSamplePosts runs outside any try
Exhausted(err) ==
    IF impl = "reddit_js"
    THEN Respond(503, UnavailableBodyV1(cleanSubreddit, err))
    ELSE \E clock \in Clocks :
            LET sample == getSamplePosts(cleanSubreddit, clock)
            IN  IF sample.threw
                THEN pc' = "crashed" /\ sent' = sent
                ELSE Respond(503, UnavailableBodyV2(cleanSubreddit, jsonError,
                                                   err, sample.posts))

\* Failed with the cache directive set as soon as an attempt is over
FailedLeavesCache(err, tm) ==
    /\ headers' = SetHeader(headers, "Cache-Control", CacheDirective)
    /\ lastError' = IF impl = "reddit_js" THEN err ELSE lastError
    /\ jsonError' = IF impl = "part_000" /\ attempt = 2
                    THEN "JSON API blocked" ELSE jsonError
    /\ IF attempt < NumAttempts
       THEN /\ StartAttempt(attempt + 1, cleanSubreddit, cleanSort,
                            cleanLimit, tm)
            /\ sent' = sent
       ELSE /\ Exhausted(err)
            /\ attempt' = attempt
            /\ calls' = calls
            /\ timers' = tm

\* strategy `attempt` has failed with error text err (continue / catch of
\* the loops, a failure return of tryRssFeed): the next strategy starts, or
\* the chain is exhausted
Failed(err, tm) ==
    /\ headers' = headers
    /\ lastError' = IF impl = "reddit_js" THEN err ELSE lastError
    /\ jsonError' = IF impl = "part_000" /\ attempt = 2
                    THEN "JSON API blocked" ELSE jsonError
    /\ IF attempt < NumAttempts
       THEN /\ StartAttempt(attempt + 1, cleanSubreddit, cleanSort,
                            cleanLimit, tm)
            /\ sent' = sent
       ELSE /\ Exhausted(err)
            /\ attempt' = attempt
            /\ calls' = calls
            /\ timers' = tm

\* Succeeded without the return: the 200 is sent and the loop goes on to
\* the next strategy
SucceededKeepsGoing(posts, tm) ==
    /\ headers' = SetHeader(headers, "Cache-Control", CacheDirective)
    /\ Respond(200, IF impl = "reddit_js"
                    THEN SuccessBodyV1(cleanSubreddit, cleanSort, posts)
                    ELSE SuccessBodyV2(IF IsFeed(impl, attempt) THEN "rss" ELSE "json",
                                       cleanSubreddit, posts))
    /\ timers' = tm
    /\ calls' = IF attempt < NumAttempts
                THEN Append(calls, AttemptUrl(impl, attempt + 1, cleanSubreddit,
                                              cleanSort, cleanLimit))
                ELSE calls
    /\ UNCHANGED << attempt, lastError, jsonError >>

\* a strategy has produced posts: Cache-Control and the 200
Succeeded(posts, tm) ==
    /\ headers' = SetHeader(headers, "Cache-Control", CacheDirective)
    /\ Respond(200, IF impl = "reddit_js"
                    THEN SuccessBodyV1(cleanSubreddit, cleanSort, posts)
                    ELSE SuccessBodyV2(IF IsFeed(impl, attempt) THEN "rss" ELSE "json",
                                       cleanSubreddit, posts))
    /\ timers' = tm
    /\ UNCHANGED << attempt, calls, lastError, jsonError >>

\* reddit.js lines 72-77: the one status that ends the chain
IsNotFound(im, status) == im = "reddit_js" /\ status = 404

\* the checks on the response headers: status, then content-type
OnHeaders(status, ct, tm) ==
    IF ~IsOk(status)
    THEN IF IsNotFound(impl, status)
         THEN /\ Respond(404, NotFoundBody(cleanSubreddit))
              /\ timers' = tm
              /\ UNCHANGED << attempt, calls, lastError, jsonError, headers >>
         ELSE Failed(IF IsFeed(impl, attempt)
                     THEN "RSS " \o ToString(status)
                     ELSE "Status " \o ToString(status), tm)
    ELSE IF ~IsFeed(impl, attempt) /\ ~IncludesJson(ct)
    THEN Failed("Non-JSON response", tm)
    ELSE /\ pc' = "body"
         /\ timers' = tm
         /\ UNCHANGED << attempt, calls, lastError, jsonError, headers, sent >>

\* the fetch promise resolves with a response: clearTimeout, then the
\* status and content-type checks
FetchResolve(status, ct) ==
    /\ pc = "fetch"
    /\ timers[attempt] = "armed"
    /\ UNCHANGED request
    /\ events' = Append(events, Event(attempt,
                    IF IsFeed(impl, attempt) THEN HeardFeed(status)
                    ELSE HeardJson(status, ct)))
    /\ lastBody' = lastBody
    /\ OnHeaders(status, ct, [timers EXCEPT ![attempt] = "cleared"])

\* the fetch promise rejects with a network error: the catch runs, the
\* timer of the attempt stays armed
FetchReject ==
    /\ pc = "fetch"
    /\ timers[attempt] = "armed"
    /\ UNCHANGED request
    /\ events' = Append(events, Event(attempt, "network error"))
    /\ lastBody' = lastBody
    /\ Failed("fetch failed", timers)

\* one controller shared by the whole chain: whichever timer fires aborts
\* the fetch that is in flight
TimerFireShared(k) ==
    /\ timers[k] = "armed"
    /\ UNCHANGED request
    /\ lastBody' = lastBody
    /\ LET tm == [timers EXCEPT ![k] = "fired"]
       IN  IF pc = "fetch"
           THEN /\ events' = Append(events, Event(attempt, "timeout"))
                /\ Failed(IF impl = "reddit_js" THEN "Timeout"
                          ELSE "This operation was aborted", tm)
           ELSE /\ timers' = tm
                /\ UNCHANGED << pc, attempt, calls, events, lastError,
                                jsonError, headers, sent >>

\* the timer of strategy k fires and aborts its controller; a fetch in
\* flight on that controller rejects with AbortError
TimerFire(k) ==
    /\ timers[k] = "armed"
    /\ UNCHANGED request
    /\ lastBody' = lastBody
    /\ LET tm == [timers EXCEPT ![k] = "fired"]
       IN  IF pc = "fetch" /\ attempt = k
           THEN /\ events' = Append(events, Event(k, "timeout"))
                /\ Failed(IF impl = "reddit_js" THEN "Timeout"
                          ELSE "This operation was aborted", tm)
           ELSE /\ timers' = tm
                /\ UNCHANGED << pc, attempt, calls, events, lastError,
                                jsonError, headers, sent >>

\* what follows await response.json() (both files)
OnJsonBody(body) ==
    LET extracted == IF impl = "reddit_js" THEN ExtractPostsV1(body)
                     ELSE ExtractPostsV2(body, cleanLimit)
    IN  IF body.shape = "unparsable"
        THEN Failed("Unexpected token", timers)
        ELSE IF body.shape = "nochildren"
        THEN Failed("Invalid JSON structure", timers)
        ELSE IF extracted.threw
        THEN Failed(extracted.message, timers)
        ELSE Succeeded(extracted.posts, timers)

\* what follows await response.text() (tryRssFeed lines 105-118)
OnFeedBody(xml, rnd) ==
    LET posts == SliceTo(parseAtomFeed(xml, cleanSubreddit, rnd), cleanLimit)
    IN  IF xml.shape = "unreadable"
        THEN Failed("terminated", timers)
        ELSE IF xml.html \/ xml.entries = << >>
        THEN Failed("RSS returned HTML", timers)
        ELSE IF Len(posts) = 0
        THEN Failed("No posts in RSS", timers)
        ELSE Succeeded(posts, timers)

\* the body promise of the attempt settles
BodySettle ==
    /\ pc = "body"
    /\ UNCHANGED request
    /\ IF IsFeed(impl, attempt)
       THEN \E xml \in FeedBodies :
              \E rnd \in [1..Len(xml.entries) -> RandomIds] :
                 /\ events' = Append(events, Event(attempt, ReadFeed(xml)))
                 /\ lastBody' = IF ReadFeed(xml) = "feed"
                                THEN [shape |-> "feed", entries |-> xml.entries,
                                      rnd |-> rnd]
                                ELSE lastBody
                 /\ OnFeedBody(xml, rnd)
       ELSE \E body \in JsonBodies :
                 /\ events' = Append(events, Event(attempt, ReadJson(body)))
                 /\ lastBody' = IF ReadJson(body) = "listing" THEN body
                                ELSE lastBody
                 /\ OnJsonBody(body)

Next ==
    \/ \E im \in Impls, r \in Requests : Receive(im, r)
    \/ \E status \in Statuses, ct \in ContentTypes : FetchResolve(status, ct)
    \/ FetchReject
    \/ \E k \in 1..NumAttempts : TimerFire(k)
    \/ BodySettle

Spec == Init /\ [][Next]_vars

(***************************************************************************)
(* Properties.                                                             *)
(***************************************************************************)
Has(body, field) == field \in DOMAIN body

\* the one response of a finished request has this status
Answered(status) == Len(sent) = 1 /\ sent[1].status = status

\* a 200 whose body says success: true
AnsweredSuccess ==
    Answered(200) /\ Has(sent[1].body, "success") /\ sent[1].body.success

\* upstream behaviours after which a strategy has produced nothing
SuccessReads == {"listing", "feed"}

\* the request passed the method gate with a subreddit that survives the
\* character filter
UsableRequest ==
    /\ req.method = "GET"
    /\ req.subreddit # Undefined
    /\ SelectSeq(req.subreddit, IsWordChar) # << >>

\* C1: for a GET with a usable subreddit, an upstream 404 on any attempt
\* makes the handler answer 404, issue no call after that attempt and
\* return no posts.
C1_NotFoundEndsChain ==
    UsableRequest =>
        \A n \in 1..Len(events) :
            events[n].what = "status 404" =>
                /\ Len(calls) = events[n].attempt
                /\ Answered(404)
                /\ ~Has(sent[1].body, "posts")

\* every strategy of the chain was tried, none succeeded, none heard a 404
AllStrategiesFailed ==
    /\ pc \in {"done", "crashed"}
    /\ Len(calls) = NumAttempts
    /\ \A n \in 1..Len(events) :
          events[n].what \notin SuccessReads \cup {"status 404"}

\* three posts of the fallback provider, made for subreddit sub
IsSampleFor(posts, sub) ==
    /\ Len(posts) = 3
    /\ \A j \in 1..3 :
          posts[j].author = "sample_user" /\ posts[j].subreddit = sub

\* C2: when every strategy has failed and none answered 404, the handler
\* answers 503 with success:false, fallback:true and the sample posts for
\* the sanitised subreddit.
C2_TotalFailureServesSamples ==
    (UsableRequest /\ AllStrategiesFailed) =>
        /\ Answered(503)
        /\ LET body == sent[1].body
           IN  /\ Has(body, "success") /\ body.success = FALSE
               /\ Has(body, "fallback") /\ body.fallback = TRUE
               /\ Has(body, "posts") /\ IsSampleFor(body.posts, cleanSubreddit)

\* C3: a GET whose subreddit is missing, or empty once the characters
\* outside [A-Za-z0-9_] are stripped, is answered 400 and causes no
\* outbound call.
C3_EmptySubredditIsRejected ==
    ( /\ pc # "idle"
      /\ req.method = "GET"
      /\ \/ req.subreddit = Undefined
         \/ SelectSeq(req.subreddit, IsWordChar) = << >> )
    => (calls = << >> /\ Answered(400))

\* the hosts of the chain, in order
ChainHosts == << "old.reddit.com", "www.reddit.com", "www.reddit.com" >>

\* posts are made of the body the upstream delivered last: from t3 children
\* of a listing, or entry by entry from a feed
MadeOf(posts, body) ==
    IF body.shape = "list"
    THEN \A j \in 1..Len(posts) :
            \E i \in 1..Len(body.children) :
                /\ body.children[i].kind = "t3"
                /\ body.children[i].id = posts[j].id
    ELSE /\ body.shape = "feed"
         /\ Len(posts) <= Len(body.entries)
         /\ \A j \in 1..Len(posts) :
               posts[j].id = IF body.entries[j] = "linked"
                             THEN "e" \o ToString(j) ELSE body.rnd[j]

\* C4: once a strategy succeeds no later strategy issues a call; the 200
\* carries the posts of the first strategy, in chain order, that succeeded,
\* and every strategy before it was called and failed.
C4_FirstSuccessWins ==
    AnsweredSuccess =>
        LET last == events[Len(events)]
            k == last.attempt
        IN  /\ last.what \in SuccessReads
            /\ \A n \in 1..(Len(events) - 1) : events[n].what \notin SuccessReads
            /\ Len(calls) = k
            /\ \A i \in 1..k : calls[i].host = ChainHosts[i]
            /\ \A i \in 1..(k - 1) :
                  \E n \in 1..Len(events) :
                      /\ events[n].attempt = i
                      /\ events[n].what \notin {"json headers", "feed headers"}
            /\ MadeOf(sent[1].body.posts, lastBody)

\* a 200 sent by the last strategy after the two before it failed
C4_Witness ==
    /\ AnsweredSuccess
    /\ Len(calls) = NumAttempts
    /\ sent[1].body.posts # << >>

\* C5: a strategy succeeds only with a non-empty post list, so no 200 with
\* success:true has an empty posts list.
C5_SuccessHasPosts ==
    (UsableRequest /\ AnsweredSuccess) => sent[1].body.posts # << >>

\* C6: no exception escapes the handler and exactly one response is sent,
\* with status 200, 400, 404, 405 or 503.
C6_HandlerNeverCrashes ==
    /\ pc # "crashed"
    /\ Len(sent) <= 1
    /\ pc = "done" =>
          /\ Len(sent) = 1
          /\ sent[1].status \in {200, 400, 404, 405, 503}

\* the failures C7 lists, as the upstream shows them
ListedFailures ==
    { "status 403", "status 429", "status 500", "non-json", "no children",
      "unparsable", "timeout" }

\* C7: an attempt that ends in a listed failure sends nothing by itself and
\* does not throw; the next strategy is called, or, after the last one, the
\* total-failure response is sent.
C7_FailuresContinueChain ==
    [][ ( /\ UsableRequest
          /\ Len(events') = Len(events) + 1
          /\ events'[Len(events')].what \in ListedFailures )
        => LET i == events'[Len(events')].attempt
           IN  IF i < NumAttempts
               THEN /\ pc' = "fetch"
                    /\ attempt' = i + 1
                    /\ Len(calls') = i + 1
                    /\ calls'[i + 1].host = ChainHosts[i + 1]
                    /\ sent' = << >>
               ELSE /\ calls' = calls
                    /\ pc' = "done"
                    /\ Len(sent') = 1
                    /\ sent'[1].status = 503 ]_vars

\* a post of the static sample table
IsSamplePost(post) == post.author = "sample_user"

\* C8: sample posts appear only under fallback:true, success:false and a
\* status other than 200; a body with success:true holds only posts made of
\* an upstream body of the same request.
C8_SamplesAreMarked ==
    \A n \in 1..Len(sent) :
        LET body == sent[n].body
        IN  /\ ( /\ Has(body, "posts")
                 /\ \E j \in 1..Len(body.posts) : IsSamplePost(body.posts[j]) )
               => /\ Has(body, "fallback") /\ body.fallback = TRUE
                  /\ Has(body, "success") /\ body.success = FALSE
                  /\ sent[n].status # 200
            /\ (Has(body, "success") /\ body.success)
               => /\ \A j \in 1..Len(body.posts) : ~IsSamplePost(body.posts[j])
                  /\ lastBody # NoBodyRead
                  /\ MadeOf(body.posts, lastBody)

\* a response that carries sample posts
C8_Witness ==
    /\ Len(sent) = 1
    /\ Has(sent[1].body, "posts")
    /\ \E j \in 1..Len(sent[1].body.posts) : IsSamplePost(sent[1].body.posts[j])

\* C9: OPTIONS is answered with an empty 200 and any method other than GET
\* and OPTIONS with 405; neither reports a validation result nor causes an
\* outbound call, whatever the query holds.
C9_MethodGate ==
    (pc # "idle" /\ req.method # "GET") =>
        /\ calls = << >>
        /\ pc = "done"
        /\ Len(sent) = 1
        /\ IF req.method = "OPTIONS"
           THEN sent[1] = [status |-> 200, body |-> [empty |-> TRUE]]
           ELSE sent[1] = [status |-> 405,
                           body |-> [error |-> "Method not allowed"]]

\* a POST without a subreddit, answered 405 and not 400
C9_Witness ==
    /\ req.method = "POST"
    /\ req.subreddit = Undefined
    /\ Answered(405)

\* the fallback provider was reached: the feed strategy of part_000 failed
FallbackReached ==
    /\ impl = "part_000"
    /\ pc \in {"done", "crashed"}
    /\ Len(calls) = NumAttempts
    /\ events[Len(events)].what \notin SuccessReads

\* the upvotes of the sample set that belongs to subreddit sub
ExpectedUpvotes(sub) ==
    CASE sub = S_Philippines -> << 1834, 945, 723 >>
      [] sub = S_entrepreneur -> << 3421, 2156, 1876 >>
      [] OTHER -> << 2847, 1923, 1567 >>

\* C10: for every name that reaches the fallback provider getSamplePosts
\* returns 3 posts, the set of a known name or else the coffee set, with
\* strictly decreasing created timestamps.
C10_ThreeSamplePosts ==
    FallbackReached =>
        /\ Len(sent) = 1
        /\ Has(sent[1].body, "posts")
        /\ LET posts == sent[1].body.posts
           IN  /\ Len(posts) = 3
               /\ \A j \in 1..3 :
                     posts[j].upvotes = ExpectedUpvotes(cleanSubreddit)[j]
               /\ \A j \in 1..2 : posts[j].created > posts[j + 1].created

(***************************************************************************)
(* The handler under a wider range of limit parameters: one GET for a      *)
(* plain subreddit is waiting, its limit drawn from LimitProbes.           *)
(***************************************************************************)
\* values of req.query.limit: absent, empty, non-numeric, zero, negative,
\* in range, the two edges, above the range, digits followed by text, blank
\* before digits
LimitProbes ==
    { Undefined, << >>, << "x" >>, << "0" >>, << "-", "5" >>, << "1" >>,
      << "7" >>, << "2", "5" >>, << "2", "6" >>, << "9", "9" >>,
      << "7", "x" >>, << " ", "3" >> }

InitLimit ==
    /\ impl = "none"
    /\ req \in [method : {"GET"}, subreddit : {S_tea}, limit : LimitProbes,
                sort : {Undefined}]
    /\ pc = "idle"
    /\ cleanSubreddit = << >>
    /\ cleanLimit = 0
    /\ cleanSort = << >>
    /\ attempt = 0
    /\ calls = << >>
    /\ timers = [i \in 1..NumAttempts |-> "unset"]
    /\ events = << >>
    /\ lastBody = NoBodyRead
    /\ lastError = "null"
    /\ jsonError = ""
    /\ headers = NoHeaders
    /\ sent = << >>

\* the waiting request is handled by either file
ReceiveWaiting == \E im \in Impls : Receive(im, req)

NextLimit ==
    \/ ReceiveWaiting
    \/ \E status \in Statuses, ct \in ContentTypes : FetchResolve(status, ct)
    \/ FetchReject
    \/ \E k \in 1..NumAttempts : TimerFire(k)
    \/ BodySettle

SpecLimit == InitLimit /\ [][NextLimit]_vars

\* the limit C11 describes: the parsed value in 1..25, 10 when parsing
\* fails (an absent limit reads as '10'), 1 below 1, 25 above 25
ClaimedLimit(limit) ==
    LET n == ParseInt(IF limit = Undefined THEN << "1", "0" >> ELSE limit)
    IN  IF n.nan THEN 10
        ELSE IF n.n < 1 THEN 1
        ELSE IF n.n > 25 THEN 25 ELSE n.n

\* C11: for every limit input the sanitised limit is an integer in 1..25,
\* namely the parsed value when it is in 1..25, 10 when parsing fails, 1
\* when below 1 and 25 when above 25, and every outbound URL that carries a
\* limit carries this value.
C11_LimitIsClamped ==
    Len(calls) > 0 =>
        /\ cleanLimit \in 1..25
        /\ cleanLimit = ClaimedLimit(req.limit)
        /\ \A i \in 1..Len(calls) :
              calls[i].ext = "json" => calls[i].limit = cleanLimit

\* the sort C12 describes for the request
ClaimedSort ==
    IF req.sort \in { S_hot, S_new, S_top, S_rising } THEN req.sort ELSE S_hot

\* C12: every outbound JSON request uses, and the success body echoes, the
\* requested sort when it is hot, new, top or rising, and hot otherwise.
C12_SortIsSanitised ==
    Len(calls) > 0 =>
        /\ \A i \in 1..Len(calls) :
              calls[i].ext = "json" => calls[i].sort = ClaimedSort
        /\ AnsweredSuccess =>
              /\ Has(sent[1].body, "sort")
              /\ sent[1].body.sort = ClaimedSort

\* C13: every outbound call stays bounded by its timer for its whole
\* duration: while the handler awaits the fetch or the body of an attempt,
\* the timer of that attempt is armed (so that its firing ends the wait).
C13_CallsStayBounded ==
    pc \in {"fetch", "body"} => timers[attempt] = "armed"

\* the upstream has settled call i: anything but response headers that let
\* the handler go on to read the body
Settled(i) ==
    \E n \in 1..Len(events) :
        /\ events[n].attempt = i
        /\ events[n].what \notin {"json headers", "feed headers"}

\* call i was settled without a listing or a feed
SettledAsFailure(i) ==
    \E n \in 1..Len(events) :
        /\ events[n].attempt = i
        /\ events[n].what \notin {"json headers", "feed headers"} \cup SuccessReads

\* the calls issued and not yet settled
InFlight == { i \in 1..Len(calls) : ~Settled(i) }

\* C14: within one request at most one outbound call is in flight, no URL
\* is requested twice, and a call is issued only after the call before it
\* has ended as a failure.
C14_ChainIsSequential ==
    /\ Cardinality(InFlight) <= 1
    /\ \A i, j \in 1..Len(calls) : i # j => calls[i] # calls[j]
    /\ \A i \in 2..Len(calls) : SettledAsFailure(i - 1)

\* the last strategy in flight after the two before it have failed
C14_Witness ==
    /\ Len(calls) = NumAttempts
    /\ InFlight = {NumAttempts}
    /\ pc = "fetch"

\* C15: the JSON endpoints, old.reddit.com then www.reddit.com, are called
\* before the feed, and the last strategy is the feed request, issued only
\* after every JSON strategy has failed.
C15_FeedIsLast ==
    \A i \in 1..Len(calls) :
        /\ i = 1 => calls[i].host = "old.reddit.com" /\ calls[i].ext = "json"
        /\ i = 2 => calls[i].host = "www.reddit.com" /\ calls[i].ext = "json"
        /\ i = NumAttempts =>
              /\ calls[i].ext = "rss"
              /\ \A j \in 1..(i - 1) : SettledAsFailure(j)

\* what the upstream did to call i when it settled it
SettleOf(i) ==
    LET n == CHOOSE m \in 1..Len(events) :
                 /\ events[m].attempt = i
                 /\ events[m].what \notin {"json headers", "feed headers"}
    IN  events[n].what

\* the error texts that classify a failed JSON attempt / the feed attempt
JsonErrorTexts(what) ==
    CASE what = "status 403" -> {"Status 403"}
      [] what = "status 404" -> {"Status 404"}
      [] what = "status 429" -> {"Status 429"}
      [] what = "status 500" -> {"Status 500"}
      [] what = "non-json" -> {"Non-JSON response"}
      [] what = "no children" -> {"Invalid JSON structure"}
      [] what = "timeout" -> {"Timeout", "This operation was aborted"}
      [] what = "network error" -> {"fetch failed"}
      [] what = "unparsable" -> {"Unexpected token"}
      [] what = "children not an array" -> {"filter is not a function"}
      [] what = "child without data" -> {"Cannot read properties of undefined"}
      [] OTHER -> {}
FeedErrorTexts(what) ==
    CASE what = "status 403" -> {"RSS 403"}
      [] what = "status 404" -> {"RSS 404"}
      [] what = "status 429" -> {"RSS 429"}
      [] what = "status 500" -> {"RSS 500"}
      [] what \in {"html page", "no entry"} -> {"RSS returned HTML"}
      [] what = "timeout" -> {"Timeout", "This operation was aborted"}
      [] what = "network error" -> {"fetch failed"}
      [] what = "unreadable" -> {"terminated"}
      [] OTHER -> {}

\* the JSON-path error a 503 body reports
JsonPathError(body) ==
    IF Has(body, "jsonError") THEN body.jsonError ELSE body.message

\* the last JSON strategy of the chain
LastJsonAttempt == IF impl = "part_000" THEN 2 ELSE NumAttempts

\* C16: on total failure the 503 body reports, per strategy category, the
\* error of the last failed attempt of that category: the JSON-path error
\* classifies the last JSON attempt, the feed-path error the feed attempt.
C16_ErrorsOfLastAttempts ==
    (UsableRequest /\ Answered(503)) =>
        /\ JsonPathError(sent[1].body) \in JsonErrorTexts(SettleOf(LastJsonAttempt))
        /\ impl = "part_000" =>
              /\ Has(sent[1].body, "rssError")
              /\ sent[1].body.rssError \in FeedErrorTexts(SettleOf(NumAttempts))

\* a 200 whose posts come from a JSON listing
JsonSuccess == AnsweredSuccess /\ events[Len(events)].what = "listing"

\* posts are the children want, one for one and in order
PostsAre(posts, want) ==
    /\ Len(posts) = Len(want)
    /\ \A j \in 1..Len(want) :
          /\ posts[j].id = want[j].id
          /\ posts[j].isPinned = want[j].stickied

\* C17 as stated: on a successful JSON attempt the posts are exactly the
\* upstream children of kind t3 that are not stickied, in upstream order,
\* cut to the sanitized limit, each with isPinned false, and count is the
\* number of posts.
C17_UnpinnedPostsCutToLimit ==
    JsonSuccess =>
        LET body == sent[1].body
            kept == SelectSeq(lastBody.children,
                              LAMBDA c : c.kind = "t3" /\ ~c.stickied)
        IN  /\ PostsAre(body.posts, SliceTo(kept, cleanLimit))
            /\ \A j \in 1..Len(body.posts) : ~body.posts[j].isPinned
            /\ body.count = Len(body.posts)

\* C17 amended: on a successful JSON attempt the posts are upstream children
\* of kind t3 in upstream order and count is their number; part_000 leaves
\* out the stickied ones and cuts to the sanitized limit, reddit.js returns
\* every t3 child, a stickied one with isPinned true, and leaves the cut to
\* the limit parameter of the upstream URL.
C17_PostsPerHandler ==
    JsonSuccess =>
        LET body == sent[1].body
            t3 == SelectSeq(lastBody.children, LAMBDA c : c.kind = "t3")
            want == IF impl = "part_000"
                    THEN SliceTo(SelectSeq(t3, LAMBDA c : ~c.stickied), cleanLimit)
                    ELSE t3
        IN  /\ PostsAre(body.posts, want)
            /\ body.count = Len(body.posts)
            /\ calls[Len(calls)].limit = cleanLimit

\* part_000 cut a listing of more unpinned posts than the limit
C17_Witness ==
    /\ JsonSuccess
    /\ impl = "part_000"
    /\ Len(SelectSeq(lastBody.children,
                     LAMBDA c : c.kind = "t3" /\ ~c.stickied)) > cleanLimit
    /\ Len(sent[1].body.posts) = cleanLimit

\* C18: every response the handler sends carries the CORS allow-all origin
\* header, and Cache-Control is set on a response exactly when it is a 200
\* success response; attempts that failed earlier in the chain leave no
\* Cache-Control on a later error response.
C18_ResponseHeaders ==
    Len(sent) = 1 =>
        /\ "Access-Control-Allow-Origin" \in DOMAIN headers
        /\ headers["Access-Control-Allow-Origin"] = "*"
        /\ "Cache-Control" \in DOMAIN headers <=> AnsweredSuccess
        /\ AnsweredSuccess => headers["Cache-Control"] = CacheDirective

\* an error response sent after every strategy of the chain had failed
C18_Witness ==
    /\ Len(sent) = 1
    /\ sent[1].status = 503
    /\ \E n \in 1..Len(events) : events[n].attempt = 1 /\ events[n].what = "no children"
    /\ "Cache-Control" \notin DOMAIN headers

\* timer k goes off in this step although call k is no longer awaited
StaleFire(k) ==
    /\ timers[k] = "armed"
    /\ timers'[k] = "fired"
    /\ ~(pc = "fetch" /\ attempt = k)

\* C19: each attempt has its own controller and timer: when a timer that
\* was armed for an earlier attempt and never cleared goes off later, the
\* attempt in flight is not aborted and nothing of the request's progress or
\* of the response already sent changes.
C19_StaleTimerIsHarmless ==
    [][ \A k \in 1..NumAttempts :
            StaleFire(k) =>
                UNCHANGED << request, pc, attempt, calls, events, lastBody,
                             lastError, jsonError, headers, sent >>
      ]_vars

\* the first call died of a network error with its timer still armed, and
\* that timer went off while the second call was in flight
C19_Witness ==
    /\ pc = "fetch"
    /\ attempt = 2
    /\ Len(events) = 1
    /\ events[1] = Event(1, "network error")
    /\ timers[1] = "fired"
    /\ timers[2] = "armed"
====
